---- MODULE Spec2Model ----
(***************************************************************************)
(* A model of the wordle solver of src/wordle.py: the feedback-pattern     *)
(* computation (get_pattern), the pattern validator (is_pattern_ok), the   *)
(* Solver class (get_best_guess, process_answer, is_solved) and the two    *)
(* solve loops that drive it (play_automatic, play_manual).                *)
(*                                                                         *)
(* A Python str is modelled as a tuple of one-character strings, a Python  *)
(* list as a tuple.                                                        *)
(***************************************************************************)
EXTENDS Integers, Sequences, FiniteSets, TLC

VARIABLES
    all_words,       \* the dictionary imported from words (module global)
    possible_words,  \* Solver._possible_words
    before,          \* history: _possible_words on entry to the last process_answer
    op,              \* the operation that ran last
    guess,           \* the guess word (argument, or value returned by get_best_guess)
    pattern,         \* the pattern (argument of process_answer / is_pattern_ok)
    ret,             \* the value the last operation returned
    err,             \* the exception the last operation raised, "none" if none
    fed,             \* history: process_answer has been called on this Solver
    again,           \* history: the last process_answer repeated the call before it
    scored,          \* number of _get_entropy_gain calls of the last get_best_guess
    secret,          \* the solution word (play_automatic's argument)
    attempts,        \* the solve loop's attempts counter
    pc               \* position of the solve loop

vars == <<all_words, possible_words, before, op, guess, pattern, ret, err,
          fed, again, scored, secret, attempts, pc>>

----------------------------------------------------------------------------
(* Bounds of the model *)

\* largest dictionary the model loads
MaxDict == 4
\* longest string handed to is_pattern_ok
MaxPatLen == 6
\* the solve loops stop counting attempts here
MaxAttempts == 4

\* letters that 5-letter words are drawn from when get_pattern is checked on
\* every pair of words
Letters == {"a", "b", "c"}

\* characters that the strings handed to is_pattern_ok are drawn from
PatChars == {"G", "O", ".", "g", "k"}

\* the words dictionaries are built from
WordPool == { <<"r","a","i","s","e">>, <<"f","a","b","l","e">>,
              <<"c","l","o","c","k">>, <<"b","l","o","c","k">>,
              <<"f","l","o","c","k">> }

----------------------------------------------------------------------------
(* Constants of src/wordle.py *)

CORRECT == "G"
PRESENT == "O"
NOT_PRESENT == "."

\* the fixed opening word
RAISE == <<"r","a","i","s","e">>

\* the value `None`, and the value of a variable an operation does not use
None == "None"

----------------------------------------------------------------------------
(* get_pattern *)

\* list.index(g): the earliest index holding g, 0 standing for ValueError
Index(word, g) ==
    IF \E j \in 1..Len(word) : word[j] = g
    THEN CHOOSE j \in 1..Len(word) :
            word[j] = g /\ \A k \in 1..(j-1) : word[k] # g
    ELSE 0

\* first loop of get_pattern, from position i on
RECURSIVE MarkCorrect(_, _, _, _)
MarkCorrect(word, pat, guessed_word, i) ==
    IF i > Len(guessed_word) THEN [word |-> word, pattern |-> pat]
    ELSE IF word[i] = guessed_word[i]
         THEN MarkCorrect([word EXCEPT ![i] = " "],
                          [pat EXCEPT ![i] = CORRECT], guessed_word, i + 1)
         ELSE MarkCorrect(word, pat, guessed_word, i + 1)

\* second loop of get_pattern, from position i on
RECURSIVE MarkPresent(_, _, _, _)
MarkPresent(word, pat, guessed_word, i) ==
    IF i > Len(guessed_word) THEN pat
    ELSE IF pat[i] = CORRECT
         THEN MarkPresent(word, pat, guessed_word, i + 1)
         ELSE LET loc == Index(word, guessed_word[i])
              IN  IF loc # 0
                  THEN MarkPresent([word EXCEPT ![loc] = " "],
                                   [pat EXCEPT ![i] = PRESENT],
                                   guessed_word, i + 1)
                  ELSE MarkPresent(word, pat, guessed_word, i + 1)

\* a slip: the matched slot of the solution is not consumed
RECURSIVE MarkPresentNoConsume(_, _, _, _)
MarkPresentNoConsume(word, pat, guessed_word, i) ==
    IF i > Len(guessed_word) THEN pat
    ELSE IF pat[i] = CORRECT
         THEN MarkPresentNoConsume(word, pat, guessed_word, i + 1)
         ELSE IF Index(word, guessed_word[i]) # 0
              THEN MarkPresentNoConsume(word, [pat EXCEPT ![i] = PRESENT],
                                        guessed_word, i + 1)
              ELSE MarkPresentNoConsume(word, pat, guessed_word, i + 1)

get_pattern_no_consume(solution_word, guessed_word) ==
    LET p1 == MarkCorrect(solution_word, <<".", ".", ".", ".", ".">>,
                          guessed_word, 1)
    IN  MarkPresentNoConsume(p1.word, p1.pattern, guessed_word, 1)

get_pattern(solution_word, guessed_word) ==
    LET p1 == MarkCorrect(solution_word, <<".", ".", ".", ".", ".">>,
                          guessed_word, 1)
    IN  MarkPresent(p1.word, p1.pattern, guessed_word, 1)

----------------------------------------------------------------------------
(* is_pattern_ok *)

\* the for loop of is_pattern_ok, from position i on
RECURSIVE AllCharsOk(_, _)
AllCharsOk(pat, i) ==
    IF i > Len(pat) THEN TRUE
    ELSE IF pat[i] \notin {CORRECT, PRESENT, NOT_PRESENT} THEN FALSE
    ELSE AllCharsOk(pat, i + 1)

\* a slip: only over-long patterns are rejected
is_pattern_ok_too_long(pat) ==
    IF Len(pat) > 5 THEN FALSE ELSE AllCharsOk(pat, 1)

is_pattern_ok(pat) ==
    IF Len(pat) # 5 THEN FALSE ELSE AllCharsOk(pat, 1)

----------------------------------------------------------------------------
(* The dictionary and Solver.__init__ *)

\* the order of Python's str comparison on the letters the model uses
Alphabet == <<"a", "b", "c", "e", "f", "i", "k", "l", "o", "r", "s">>

Ord(c) == CHOOSE i \in 1..Len(Alphabet) : Alphabet[i] = c

\* str.__lt__ on two words of equal length, from position i on
RECURSIVE StrLess(_, _, _)
StrLess(a, b, i) ==
    IF i > Len(a) THEN FALSE
    ELSE IF a[i] # b[i] THEN Ord(a[i]) < Ord(b[i])
    ELSE StrLess(a, b, i + 1)

\* insertion of w into the sorted list s
RECURSIVE Insert(_, _)
Insert(w, s) ==
    IF s = <<>> THEN <<w>>
    ELSE IF StrLess(w, Head(s), 1) THEN <<w>> \o s
    ELSE <<Head(s)>> \o Insert(w, Tail(s))

\* list.sort()
RECURSIVE Sort(_)
Sort(s) == IF s = <<>> THEN <<>> ELSE Insert(Head(s), Sort(Tail(s)))

\* the dictionaries the model loads: every list of 1..MaxDict distinct words
Dictionaries ==
    UNION { { d \in [1..n -> WordPool] :
                \A i, j \in 1..n : i # j => d[i] # d[j] } : n \in 1..MaxDict }

\* Solver.__init__: a sorted copy of the dictionary
SolverInit(words) == Sort(words)

ToSet(s) == { s[i] : i \in 1..Len(s) }

----------------------------------------------------------------------------
(* Solver.process_answer, Solver.is_solved *)

\* the for loop of process_answer over words[i..]
RECURSIVE FilterFrom(_, _, _, _)
FilterFrom(words, g, pat, i) ==
    IF i > Len(words) THEN <<>>
    ELSE IF get_pattern(words[i], g) = pat
         THEN <<words[i]>> \o FilterFrom(words, g, pat, i + 1)
         ELSE FilterFrom(words, g, pat, i + 1)

\* a slip: the loop misses the last word of the list
RECURSIVE FilterButLast(_, _, _, _)
FilterButLast(words, g, pat, i) ==
    IF i >= Len(words) THEN <<>>
    ELSE IF get_pattern(words[i], g) = pat
         THEN <<words[i]>> \o FilterButLast(words, g, pat, i + 1)
         ELSE FilterButLast(words, g, pat, i + 1)

process_answer_drops_last(words, g, pat) == FilterButLast(words, g, pat, 1)

\* a slip: the loop starts at the second word of the list
process_answer_drops_first(words, g, pat) == FilterFrom(words, g, pat, 2)

\* a slip: the dictionary is filtered instead of the candidate list
process_answer_from_dictionary(words, g, pat) == FilterFrom(all_words, g, pat, 1)

\* a slip: the words that do not match are kept
RECURSIVE FilterNot(_, _, _, _)
FilterNot(words, g, pat, i) ==
    IF i > Len(words) THEN <<>>
    ELSE IF get_pattern(words[i], g) # pat
         THEN <<words[i]>> \o FilterNot(words, g, pat, i + 1)
         ELSE FilterNot(words, g, pat, i + 1)

process_answer_keeps_others(words, g, pat) == FilterNot(words, g, pat, 1)

\* the new value of _possible_words
process_answer(words, g, pat) == FilterFrom(words, g, pat, 1)

is_solved(words) == Len(words) = 1

----------------------------------------------------------------------------
(* Solver._get_entropy_gain *)

\* math.log on 1..12, in millionths, rounded to nearest
LnMicro == << 0, 693147, 1098612, 1386294, 1609438, 1791759,
              1945910, 2079442, 2197225, 2302585, 2397895, 2484907 >>

\* the Counter c: pattern -> number of candidates producing it
PatternCounts(words, g) ==
    [ pt \in { get_pattern(words[i], g) : i \in 1..Len(words) } |->
        Cardinality({ i \in 1..Len(words) : get_pattern(words[i], g) = pt }) ]

\* -k * (pi*log(pi) + (1-pi)*log(1-pi)) * k, pi = 1/k, in millionths:
\* pi*log(pi) + (1-pi)*log(1-pi) = ((k-1)*log(k-1) - k*log(k)) / k
BucketTerm(k) == k * (k * LnMicro[k] - (k - 1) * LnMicro[k - 1])

\* the loop over c.items(); buckets of count 1 are skipped
RECURSIVE SumBuckets(_, _)
SumBuckets(c, pats) ==
    IF pats = {} THEN 0
    ELSE LET pt == CHOOSE x \in pats : TRUE
         IN  (IF c[pt] = 1 THEN 0 ELSE BucketTerm(c[pt]))
             + SumBuckets(c, pats \ {pt})

\* The entropy gain multiplied by total = len(possible_words), in millionths.
\* The code divides every bucket's term by total and multiplies the current
\* entropy by total; total is the same for every guess scored in one
\* get_best_guess call, so the common factor changes neither the order nor
\* the ties of the scores.  Needs Len(words) >= 2 (see ScoreError).
get_entropy_gain(words, g) ==
    LET c     == PatternCounts(words, g)
        total == Len(words)
    IN  total * (total * LnMicro[total] - (total - 1) * LnMicro[total - 1])
        - SumBuckets(c, DOMAIN c)

\* the exception _get_entropy_gain raises: 1 / total with total = 0.0, and
\* math.log(1 - pc) with pc = 1.0
ScoreError(words) ==
    IF Len(words) = 0 THEN "ZeroDivisionError"
    ELSE IF Len(words) = 1 THEN "ValueError"
    ELSE "none"

----------------------------------------------------------------------------
(* Solver.get_best_guess *)

\* max(entries, key=...) over dict[i..], best being the entry kept so far:
\* a later entry replaces it only when its key is strictly greater
RECURSIVE MaxFrom(_, _, _, _)
MaxFrom(dict, words, best, i) ==
    IF i > Len(dict) THEN best
    ELSE IF get_entropy_gain(words, dict[i]) > get_entropy_gain(words, best)
         THEN MaxFrom(dict, words, dict[i], i + 1)
         ELSE MaxFrom(dict, words, best, i + 1)

\* a slip: among equal scores the last one wins
RECURSIVE MaxFromLast(_, _, _, _)
MaxFromLast(dict, words, best, i) ==
    IF i > Len(dict) THEN best
    ELSE IF get_entropy_gain(words, dict[i]) >= get_entropy_gain(words, best)
         THEN MaxFromLast(dict, words, dict[i], i + 1)
         ELSE MaxFromLast(dict, words, best, i + 1)

get_best_guess_last_max(dict, words) ==
    IF Len(words) = Len(dict)
    THEN [guess |-> RAISE, err |-> "none", scored |-> 0]
    ELSE IF ScoreError(words) # "none"
         THEN [guess |-> None, err |-> ScoreError(words), scored |-> 1]
         ELSE [guess |-> MaxFromLast(dict, words, dict[1], 2),
               err |-> "none", scored |-> Len(dict)]

\* a slip: no first-guess shortcut
get_best_guess_no_shortcut(dict, words) ==
    IF ScoreError(words) # "none"
    THEN [guess |-> None, err |-> ScoreError(words), scored |-> 1]
    ELSE [guess |-> MaxFrom(dict, words, dict[1], 2),
          err |-> "none", scored |-> Len(dict)]

\* the word returned, the exception raised and the number of
\* _get_entropy_gain calls made
get_best_guess(dict, words) ==
    IF Len(words) = Len(dict)
    THEN [guess |-> RAISE, err |-> "none", scored |-> 0]
    ELSE IF ScoreError(words) # "none"
         THEN [guess |-> None, err |-> ScoreError(words), scored |-> 1]
         ELSE [guess |-> MaxFrom(dict, words, dict[1], 2),
               err |-> "none", scored |-> Len(dict)]

----------------------------------------------------------------------------
(* The Solver driven by an arbitrary caller *)

\* the patterns handed to process_answer: every pattern two words of the pool
\* produce, and one no word produces
PatternInputs ==
    { get_pattern(w, g) : w \in WordPool, g \in WordPool }
        \cup { <<"O", "O", "O", "O", "O">> }

Init ==
    /\ all_words \in Dictionaries
    /\ possible_words = SolverInit(all_words)
    /\ before = possible_words
    /\ op = "init"
    /\ guess = None
    /\ pattern = None
    /\ ret = None
    /\ err = "none"
    /\ fed = FALSE
    /\ again = FALSE
    /\ scored = 0
    /\ secret = None
    /\ attempts = 0
    /\ pc = "caller"

GetBestGuess ==
    LET r == get_best_guess(all_words, possible_words)
    IN  /\ op' = "get_best_guess"
        /\ ret' = r.guess
        /\ err' = r.err
        /\ scored' = r.scored
        /\ again' = FALSE
        /\ UNCHANGED <<all_words, possible_words, before, guess, pattern,
                       fed, secret, attempts, pc>>

ProcessAnswer ==
    \E g \in WordPool, p \in PatternInputs :
        /\ possible_words' = process_answer(possible_words, g, p)
        /\ before' = possible_words
        /\ op' = "process_answer"
        /\ guess' = g
        /\ pattern' = p
        /\ ret' = None
        /\ err' = "none"
        /\ fed' = TRUE
        /\ again' = (op = "process_answer" /\ guess = g /\ pattern = p)
        /\ UNCHANGED <<all_words, scored, secret, attempts, pc>>

IsSolved ==
    /\ op' = "is_solved"
    /\ ret' = is_solved(possible_words)
    /\ err' = "none"
    /\ again' = FALSE
    /\ UNCHANGED <<all_words, possible_words, before, guess, pattern, fed,
                   scored, secret, attempts, pc>>

Next == GetBestGuess \/ ProcessAnswer \/ IsSolved

Spec == Init /\ [][Next]_vars

----------------------------------------------------------------------------
(* Properties of the Solver, checked under Spec *)

\* C3: after process_answer(guess, pattern) the candidate list holds exactly
\* the words w of the previous candidate list with
\* get_pattern(w, guess) = pattern, each once: no matching word is dropped,
\* no other word is kept, no word from outside is added.
C3_FilterExact ==
    op = "process_answer" =>
        /\ ToSet(possible_words) =
              { w \in ToSet(before) : get_pattern(w, guess) = pattern }
        /\ Len(possible_words) = Cardinality(ToSet(possible_words))

\* a call that kept some candidates and dropped others
C3_Witness ==
    /\ op = "process_answer"
    /\ possible_words # <<>>
    /\ Len(possible_words) < Len(before)

\* C4: over any sequence of process_answer calls the candidate list never
\* grows from one call to the next and stays within the dictionary.
C4_Monotonic ==
    /\ Len(possible_words) <= Len(before)
    /\ ToSet(possible_words) \subseteq ToSet(before)
    /\ ToSet(possible_words) \subseteq ToSet(all_words)

\* a second call in a row that shrank the candidate list again
C4_Witness ==
    /\ op = "process_answer"
    /\ Len(before) < Len(all_words)
    /\ Len(possible_words) < Len(before)
    /\ possible_words # <<>>

\* C5: process_answer(guess, pattern) called a second time right after the
\* first leaves the candidate list as the first call left it.
C5_Idempotent == again => possible_words = before

\* a repeated call on a list the first call had shrunk to two or more words
C5_Witness ==
    /\ again
    /\ Len(possible_words) >= 2
    /\ Len(possible_words) < Len(all_words)

\* C7: get_best_guess on a Solver that no feedback was applied to returns
\* 'raise' and scores nothing, whatever the dictionary holds.
C7_FirstGuess ==
    (op = "get_best_guess" /\ ~fed) =>
        err = "none" /\ scored = 0 /\ ret = RAISE

\* the first guess of a Solver whose dictionary does not hold 'raise'
C7_Witness ==
    /\ op = "get_best_guess"
    /\ ~fed
    /\ RAISE \notin ToSet(all_words)
    /\ Len(all_words) >= 2

\* C8: with a candidate list of at least 2 words that is no longer the full
\* dictionary, get_best_guess scores every word of the dictionary against
\* the candidate list and returns a dictionary word of maximal score, the
\* earliest of the dictionary among those of maximal score.
C8_BestGuess ==
    (/\ op = "get_best_guess"
     /\ Len(possible_words) # Len(all_words)
     /\ Len(possible_words) >= 2) =>
        /\ err = "none"
        /\ scored = Len(all_words)
        /\ ret \in ToSet(all_words)
        /\ \A i \in 1..Len(all_words) :
              /\ get_entropy_gain(possible_words, all_words[i])
                    <= get_entropy_gain(possible_words, ret)
              /\ get_entropy_gain(possible_words, all_words[i])
                    = get_entropy_gain(possible_words, ret)
                    => Index(all_words, ret) <= i

\* the best guess is a dictionary word that is not a candidate, and it beats
\* every candidate
C8_Witness ==
    /\ op = "get_best_guess"
    /\ Len(possible_words) # Len(all_words)
    /\ Len(possible_words) >= 2
    /\ ret \notin ToSet(possible_words)
    /\ \A w \in ToSet(possible_words) :
          get_entropy_gain(possible_words, w)
              < get_entropy_gain(possible_words, ret)

\* the best guess is the earlier of several words of maximal score
C8_TieWitness ==
    /\ op = "get_best_guess"
    /\ Len(possible_words) # Len(all_words)
    /\ Len(possible_words) >= 2
    /\ \E i \in 1..Len(all_words) :
          /\ all_words[i] # ret
          /\ get_entropy_gain(possible_words, all_words[i])
                = get_entropy_gain(possible_words, ret)

----------------------------------------------------------------------------
(* get_pattern applied to every pair of 5-letter words over Letters *)

Words5 == [1..5 -> Letters]

InitPattern ==
    /\ secret \in Words5
    /\ guess \in Words5
    /\ op = "init"
    /\ ret = None
    /\ err = "none"
    /\ all_words = <<>>
    /\ possible_words = <<>>
    /\ before = <<>>
    /\ pattern = None
    /\ fed = FALSE
    /\ again = FALSE
    /\ scored = 0
    /\ attempts = 0
    /\ pc = "caller"

GetPattern ==
    /\ op = "init"
    /\ op' = "get_pattern"
    /\ ret' = get_pattern(secret, guess)
    /\ UNCHANGED <<all_words, possible_words, before, guess, pattern, err,
                   fed, again, scored, secret, attempts, pc>>

NextPattern == GetPattern

SpecPattern == InitPattern /\ [][NextPattern]_vars

\* The two-pass reference: consumed is the set of solution slots used up so
\* far; position i of the guess, when not an exact match, is 'O' iff some
\* slot outside consumed holds its letter, and then the earliest such slot
\* joins consumed.
RECURSIVE RefPresent(_, _, _, _)
RefPresent(s, g, consumed, i) ==
    IF i > 5 THEN <<>>
    ELSE IF g[i] = s[i] THEN <<"G">> \o RefPresent(s, g, consumed, i + 1)
    ELSE LET free == { k \in 1..5 : k \notin consumed /\ s[k] = g[i] }
         IN  IF free = {}
             THEN <<".">> \o RefPresent(s, g, consumed, i + 1)
             ELSE LET k == CHOOSE x \in free : \A y \in free : x <= y
                  IN  <<"O">> \o RefPresent(s, g, consumed \cup {k}, i + 1)

RefPattern(s, g) == RefPresent(s, g, { i \in 1..5 : g[i] = s[i] }, 1)

Occurrences(w, c) == Cardinality({ i \in 1..5 : w[i] = c })

Min(a, b) == IF a <= b THEN a ELSE b

\* C1: get_pattern(solution, guess) is the two-pass reference result; it has
\* length 5 over {G, O, .}; position i is 'G' iff guess[i] = solution[i];
\* and for each letter the number of 'G'/'O' positions carrying it is
\* min(occurrences in guess, occurrences in solution).
C1_PatternReference ==
    op = "get_pattern" =>
        /\ ret = RefPattern(secret, guess)
        /\ Len(ret) = 5
        /\ \A i \in 1..5 : ret[i] \in {"G", "O", "."}
        /\ \A i \in 1..5 : (ret[i] = "G") <=> (guess[i] = secret[i])
        /\ \A c \in Letters :
              Cardinality({ i \in 1..5 : guess[i] = c /\ ret[i] \in {"G", "O"} })
                 = Min(Occurrences(guess, c), Occurrences(secret, c))

\* a guess that repeats a letter more often than the solution holds it: one
\* occurrence is 'O', a later one '.'
C1_Witness ==
    /\ op = "get_pattern"
    /\ \E i, j \in 1..5 :
          /\ i < j
          /\ guess[i] = guess[j]
          /\ ret[i] = "O"
          /\ ret[j] = "."

----------------------------------------------------------------------------
(* is_pattern_ok applied to every string over PatChars of length 0..MaxPatLen *)

PatStrings == UNION { [1..n -> PatChars] : n \in 0..MaxPatLen }

InitValidator ==
    /\ pattern \in PatStrings
    /\ op = "init"
    /\ ret = None
    /\ err = "none"
    /\ all_words = <<>>
    /\ possible_words = <<>>
    /\ before = <<>>
    /\ guess = None
    /\ fed = FALSE
    /\ again = FALSE
    /\ scored = 0
    /\ secret = None
    /\ attempts = 0
    /\ pc = "caller"

IsPatternOk ==
    /\ op = "init"
    /\ op' = "is_pattern_ok"
    /\ ret' = is_pattern_ok(pattern)
    /\ UNCHANGED <<all_words, possible_words, before, guess, pattern, err,
                   fed, again, scored, secret, attempts, pc>>

NextValidator == IsPatternOk

SpecValidator == InitValidator /\ [][NextValidator]_vars

\* C2: is_pattern_ok(p) is True exactly when p has length 5 and every
\* character of p is one of 'G', 'O', '.'; it is False for every other
\* string, and it raises nothing.
C2_Validator ==
    op = "is_pattern_ok" =>
        /\ ret \in BOOLEAN
        /\ ret <=> (Len(pattern) = 5 /\
                    \A i \in 1..Len(pattern) : pattern[i] \in {"G", "O", "."})
        /\ err = "none"

\* a string of the right characters but the wrong length was rejected
C2_Witness ==
    /\ op = "is_pattern_ok"
    /\ ret = FALSE
    /\ Len(pattern) < 5
    /\ \A i \in 1..Len(pattern) : pattern[i] \in {"G", "O", "."}

----------------------------------------------------------------------------
(* play_automatic(word) for every dictionary and every word of it *)

InitAuto ==
    /\ all_words \in Dictionaries
    /\ secret \in ToSet(all_words)
    /\ possible_words = SolverInit(all_words)
    /\ before = possible_words
    /\ op = "init"
    /\ guess = None
    /\ pattern = None
    /\ ret = None
    /\ err = "none"
    /\ fed = FALSE
    /\ again = FALSE
    /\ scored = 0
    /\ attempts = 0
    /\ pc = "while"

\* while not solver.is_solved():
AutoTest ==
    /\ pc = "while"
    /\ op' = "is_solved"
    /\ ret' = is_solved(possible_words)
    /\ err' = "none"
    /\ pc' = IF is_solved(possible_words) THEN "done" ELSE "guess"
    /\ UNCHANGED <<all_words, possible_words, before, guess, pattern, fed,
                   again, scored, secret, attempts>>

\* guess = solver.get_best_guess(); attempts += 1
AutoGuess ==
    /\ pc = "guess"
    /\ attempts < MaxAttempts
    /\ LET r == get_best_guess(all_words, possible_words)
       IN  /\ op' = "get_best_guess"
           /\ ret' = r.guess
           /\ err' = r.err
           /\ scored' = r.scored
           /\ guess' = r.guess
           /\ attempts' = IF r.err = "none" THEN attempts + 1 ELSE attempts
           /\ pc' = IF r.err = "none" THEN "answer" ELSE "raised"
    /\ UNCHANGED <<all_words, possible_words, before, pattern, fed, again,
                   secret>>

\* pattern = get_pattern(word, guess); solver.process_answer(guess, pattern)
AutoAnswer ==
    /\ pc = "answer"
    /\ pattern' = get_pattern(secret, guess)
    /\ possible_words' = process_answer(possible_words, guess, pattern')
    /\ before' = possible_words
    /\ op' = "process_answer"
    /\ ret' = None
    /\ err' = "none"
    /\ fed' = TRUE
    /\ again' = FALSE
    /\ pc' = "while"
    /\ UNCHANGED <<all_words, guess, scored, secret, attempts>>

NextAuto == AutoTest \/ AutoGuess \/ AutoAnswer

SpecAuto == InitAuto /\ [][NextAuto]_vars

\* C6: every turn play_automatic takes while the puzzle is unsolved strictly
\* shrinks the candidate list, the first turn with the fixed opening word
\* included (so the loop reaches is_solved() = True).
C6_EveryTurnShrinks ==
    [][(pc = "answer" /\ pc' = "while")
          => Len(possible_words') < Len(possible_words)]_vars

\* C10: with truthful feedback for one secret word of the dictionary the
\* secret is in the candidate list in every state, the list is never empty,
\* and when play_automatic leaves its loop the one candidate left is the
\* secret.
C10_SecretStays ==
    /\ secret \in ToSet(possible_words)
    /\ possible_words # <<>>
    /\ err = "none"
    /\ pc = "done" => possible_words = <<secret>>

\* the loop ended after two turns or more with the secret as the one
\* candidate left
C10_Witness ==
    /\ pc = "done"
    /\ attempts >= 2
    /\ possible_words = <<secret>>
    /\ Len(all_words) > 2

----------------------------------------------------------------------------
(* play_manual() for every dictionary, the user typing any string of RawInputs *)

\* str.upper() on one character
UpperChar(c) ==
    CASE c = "g" -> "G"
      [] c = "o" -> "O"
      [] c = "k" -> "K"
      [] OTHER   -> c

Upper(str) == [ i \in 1..Len(str) |-> UpperChar(str[i]) ]

\* a pattern as a user may type it in lower case
LowerTyped(pat) ==
    [ i \in 1..Len(pat) |->
        CASE pat[i] = "G" -> "g" [] pat[i] = "O" -> "o" [] OTHER -> pat[i] ]

\* what the user types: the patterns of PatternInputs in upper and in lower
\* case, and three malformed strings
RawInputs ==
    PatternInputs \cup { LowerTyped(pt) : pt \in PatternInputs }
        \cup { <<"G", "G", "O">>, <<".", ".", ".", ".", "k">>,
               <<"G", "G", "G", "O", "O", "O">> }

InitManual ==
    /\ all_words \in Dictionaries
    /\ secret = None
    /\ possible_words = SolverInit(all_words)
    /\ before = possible_words
    /\ op = "init"
    /\ guess = None
    /\ pattern = None
    /\ ret = None
    /\ err = "none"
    /\ fed = FALSE
    /\ again = FALSE
    /\ scored = 0
    /\ attempts = 0
    /\ pc = "while"

\* while not solver.is_solved():
ManualTest ==
    /\ pc = "while"
    /\ op' = "is_solved"
    /\ ret' = is_solved(possible_words)
    /\ err' = "none"
    /\ pc' = IF is_solved(possible_words) THEN "done" ELSE "guess"
    /\ UNCHANGED <<all_words, possible_words, before, guess, pattern, fed,
                   again, scored, secret, attempts>>

\* guess = solver.get_best_guess(); attempts += 1
ManualGuess ==
    /\ pc = "guess"
    /\ attempts < MaxAttempts
    /\ LET r == get_best_guess(all_words, possible_words)
       IN  /\ op' = "get_best_guess"
           /\ ret' = r.guess
           /\ err' = r.err
           /\ scored' = r.scored
           /\ guess' = r.guess
           /\ attempts' = IF r.err = "none" THEN attempts + 1 ELSE attempts
           /\ pc' = IF r.err = "none" THEN "input" ELSE "raised"
    /\ UNCHANGED <<all_words, possible_words, before, pattern, fed, again,
                   secret>>

\* pattern = input(...).upper(); if is_pattern_ok(pattern): break
ManualInput ==
    /\ pc = "input"
    /\ \E raw \in RawInputs :
          /\ pattern' = Upper(raw)
          /\ op' = "is_pattern_ok"
          /\ ret' = is_pattern_ok(Upper(raw))
          /\ pc' = IF is_pattern_ok(Upper(raw)) THEN "answer" ELSE "input"
    /\ err' = "none"
    /\ UNCHANGED <<all_words, possible_words, before, guess, fed, again,
                   scored, secret, attempts>>

\* solver.process_answer(guess, pattern)
ManualAnswer ==
    /\ pc = "answer"
    /\ possible_words' = process_answer(possible_words, guess, pattern)
    /\ before' = possible_words
    /\ op' = "process_answer"
    /\ ret' = None
    /\ err' = "none"
    /\ fed' = TRUE
    /\ again' = FALSE
    /\ pc' = "while"
    /\ UNCHANGED <<all_words, guess, pattern, scored, secret, attempts>>

NextManual == ManualTest \/ ManualGuess \/ ManualInput \/ ManualAnswer

SpecManual == InitManual /\ [][NextManual]_vars

\* C9: an empty candidate list is not Solved, and it ends the guessing: the
\* solve loop never evaluates get_best_guess against an empty candidate list.
C9_EmptyIsTerminal ==
    /\ possible_words = <<>> => ~is_solved(possible_words)
    /\ ~(op = "get_best_guess" /\ possible_words = <<>>)

====
